---------------------------- MODULE Spec2Model ----------------------------
(***************************************************************************)
(* Model of the container-runtime abstraction layer (ContainerRuntime,     *)
(* src/unnamed/part_000) and of the readiness checks built on it           *)
(* (src/src/renderer/lib/specs.ts).                                        *)
(*                                                                         *)
(* Every async method is a frame on its caller's stack.  A frame runs      *)
(* synchronously from one await to the next, so there is one action per    *)
(* continuation: the code between two awaits.  An await of execAsync keeps *)
(* the command in the frame's cmd field until the host answers it; an      *)
(* await of another method pushes the callee's frame, and the continuation *)
(* runs once that frame is settled (pc "return" or "throw").               *)
(*                                                                         *)
(* Strings are sequences of one-character strings, so that includes,       *)
(* toLowerCase, trim, split, match and replace are computed on characters. *)
(***************************************************************************)
EXTENDS Integers, Sequences, FiniteSets, TLC

VARIABLES
    detectedRuntime,  \* ContainerRuntime.detectedRuntime: "null", "docker", "podman"
    runtimeInfo,      \* ContainerRuntime.runtimeInfo: an info record, NullInfo for null
    host,             \* what the machine answers to each external command
    hostChanges,      \* history: how often the host's answers have changed
    stack,            \* stack[p]: the frames of caller p's call in flight, innermost last
    lastDetect        \* history: value of the last settled detectRuntime() since reset()

vars == <<detectedRuntime, runtimeInfo, host, hostChanges, stack, lastDetect>>

---------------------------------------------------------------------------
(* Bounds *)

\* Longest compose-probe output enumerated character by character.
MaxComposeLen == 6

\* How often the host's answers change while the process runs.
MaxHostChanges == 1

\* Longest `podman --version` output enumerated character by character.
MaxVersionLen == 5

\* Most pieces a command template or a group listing is put together from.
MaxPieces == 3

---------------------------------------------------------------------------
(* Callers *)

\* The logically concurrent callers.  The races of the cache are races of
\* two calls: one that is suspended at an external command, and one that
\* runs meanwhile; reset() is called from outside any call.
Callers == {1, 2}

---------------------------------------------------------------------------
(* Program constants *)

\* info.composeInstalled = majorVersion >= 2
MinComposeMajor == 2

\* specs.ramGB >= 4
MinRamGB == 4

\* specs.cpuCores >= 2
MinCpuCores == 2

---------------------------------------------------------------------------
(* Strings *)

DOCKER == <<"d","o","c","k","e","r">>
PODMAN == <<"p","o","d","m","a","n">>
VERSION_ARG == <<" ","-","-","v","e","r","s","i","o","n">>
COMPOSE_VERSION_ARG == <<" ","c","o","m","p","o","s","e"," ","v","e","r","s","i","o","n">>
PS_ARG == <<" ","p","s">>
ID_GN == <<"i","d"," ","-","G","n">>
PASTA == <<"p","a","s","t","a">>
SLIRP4NETNS == <<"s","l","i","r","p","4","n","e","t","n","s">>
FOUR_FOUR == <<"4",".","4">>

Digits == {"0","1","2","3","4","5","6","7","8","9"}
WhiteSpace == {" ", "\n", "\t"}

DigitVal(c) ==
    CASE c = "0" -> 0 [] c = "1" -> 1 [] c = "2" -> 2 [] c = "3" -> 3
      [] c = "4" -> 4 [] c = "5" -> 5 [] c = "6" -> 6 [] c = "7" -> 7
      [] c = "8" -> 8 [] c = "9" -> 9

\* String.prototype.toLowerCase, on the upper-case letters the outputs use.
LowerChar(c) ==
    CASE c = "D" -> "d" [] c = "P" -> "p" [] c = "O" -> "o" [] c = "M" -> "m"
      [] c = "A" -> "a" [] c = "N" -> "n" [] c = "C" -> "c" [] c = "V" -> "v"
      [] OTHER -> c

ToLowerCase(s) == [i \in 1..Len(s) |-> LowerChar(s[i])]

StartsWith(s, pre) ==
    /\ Len(pre) <= Len(s)
    /\ SubSeq(s, 1, Len(pre)) = pre

\* String.prototype.includes
Includes(s, sub) ==
    \E i \in 1..(Len(s) + 1) :
        /\ i + Len(sub) - 1 <= Len(s)
        /\ SubSeq(s, i, i + Len(sub) - 1) = sub

\* String.prototype.trim
RECURSIVE TrimStart(_)
TrimStart(s) ==
    IF s # <<>> /\ Head(s) \in WhiteSpace THEN TrimStart(Tail(s)) ELSE s

RECURSIVE TrimEnd(_)
TrimEnd(s) ==
    IF s # <<>> /\ s[Len(s)] \in WhiteSpace
    THEN TrimEnd(SubSeq(s, 1, Len(s) - 1))
    ELSE s

Trim(s) == TrimEnd(TrimStart(s))

\* s.split(/\s+/): the pieces between maximal runs of white space, an empty
\* piece before a leading run and after a trailing one.
RECURSIVE SplitFrom(_, _, _)
SplitFrom(s, i, cur) ==
    IF i > Len(s) THEN <<cur>>
    ELSE IF s[i] \in WhiteSpace
         THEN IF i > 1 /\ s[i - 1] \in WhiteSpace
              THEN SplitFrom(s, i + 1, cur)
              ELSE <<cur>> \o SplitFrom(s, i + 1, <<>>)
         ELSE SplitFrom(s, i + 1, Append(cur, s[i]))

SplitWhiteSpace(s) == SplitFrom(s, 1, <<>>)

\* Array.prototype.includes
ArrayIncludes(arr, x) == \E i \in 1..Len(arr) : arr[i] = x

\* The index of the last character of the longest run of digits that starts
\* at i; i - 1 when s[i] is no digit.
RECURSIVE DigitsEnd(_, _)
DigitsEnd(s, i) ==
    IF i <= Len(s) /\ s[i] \in Digits THEN DigitsEnd(s, i + 1) ELSE i - 1

\* /(\d+\.\d+\.\d+)/ tried at position i: the index of the match's last
\* character, 0 when there is no match at i.  Each \d+ is greedy; a shorter
\* run would have to be followed by ".", and is followed by a digit, so
\* backtracking never finds another match.
MatchEndAt(s, i) ==
    LET e1 == DigitsEnd(s, i)
        e2 == DigitsEnd(s, e1 + 2)
        e3 == DigitsEnd(s, e2 + 2)
    IN  IF /\ e1 >= i
           /\ e1 + 1 <= Len(s) /\ s[e1 + 1] = "."
           /\ e2 >= e1 + 2
           /\ e2 + 1 <= Len(s) /\ s[e2 + 1] = "."
           /\ e3 >= e2 + 2
        THEN e3
        ELSE 0

\* composeOutput.match(/(\d+\.\d+\.\d+)/): the leftmost match, <<>> for null.
RECURSIVE MatchFrom(_, _)
MatchFrom(s, i) ==
    IF i > Len(s) THEN <<>>
    ELSE IF MatchEndAt(s, i) > 0 THEN SubSeq(s, i, MatchEndAt(s, i))
    ELSE MatchFrom(s, i + 1)

VersionMatch(s) == MatchFrom(s, 1)

\* versionMatch[1].split('.')[0]
RECURSIVE BeforeDot(_)
BeforeDot(s) ==
    IF s = <<>> \/ Head(s) = "." THEN <<>> ELSE <<Head(s)>> \o BeforeDot(Tail(s))

\* parseInt(digits, 10) of a non-empty run of digits
RECURSIVE ParseInt(_)
ParseInt(s) ==
    IF s = <<>> THEN 0
    ELSE 10 * ParseInt(SubSeq(s, 1, Len(s) - 1)) + DigitVal(s[Len(s)])

\* A replace without the anchor: the first name anywhere is replaced.
RECURSIVE ReplaceLeadingEngine_Unanchored(_, _)
ReplaceLeadingEngine_Unanchored(command, runtime) ==
    IF command = <<>> THEN <<>>
    ELSE IF StartsWith(command, DOCKER) \/ StartsWith(command, PODMAN)
    THEN runtime \o SubSeq(command, Len(DOCKER) + 1, Len(command))
    ELSE <<Head(command)>> \o ReplaceLeadingEngine_Unanchored(Tail(command), runtime)

\* command.replace(/^(docker|podman)/, runtime)
ReplaceLeadingEngine(command, runtime) ==
    IF StartsWith(command, DOCKER)
    THEN runtime \o SubSeq(command, Len(DOCKER) + 1, Len(command))
    ELSE IF StartsWith(command, PODMAN)
    THEN runtime \o SubSeq(command, Len(PODMAN) + 1, Len(command))
    ELSE command

\* The invocation name of a runtime kind.
KindName(k) == IF k = "podman" THEN PODMAN ELSE DOCKER

\* The strings of at most n characters of an alphabet.
RECURSIVE StringsUpTo(_, _)
StringsUpTo(alphabet, n) ==
    IF n = 0 THEN {<<>>}
    ELSE LET shorter == StringsUpTo(alphabet, n - 1)
         IN  shorter \cup {Append(s, c) : s \in shorter, c \in alphabet}

\* The strings put together from at most n of the given pieces.
RECURSIVE ConcatsUpTo(_, _)
ConcatsUpTo(pieces, n) ==
    IF n = 0 THEN {<<>>}
    ELSE LET shorter == ConcatsUpTo(pieces, n - 1)
         IN  shorter \cup {s \o x : s \in shorter, x \in pieces}

---------------------------------------------------------------------------
(* The host: what each external command answers *)

\* execAsync settles with {stdout} or rejects.
Ok(out) == [ok |-> TRUE, stdout |-> out]
Fail == [ok |-> FALSE, stdout |-> <<>>]

DockerReal == <<"D","o","c","k","e","r"," ","v","e","r","s","i","o","n"," ","2","4",".","0",".","7","\n">>
PodmanNew == <<"p","o","d","m","a","n"," ","v","e","r","s","i","o","n"," ","4",".","4",".","1","\n">>
PodmanOld == <<"p","o","d","m","a","n"," ","v","e","r","s","i","o","n"," ","3",".","0",".","1","\n">>
PodmanCaps == <<"P","o","d","m","a","n"," ","E","n","g","i","n","e"," ","5",".","0",".","2","\n">>
ComposeV2 == <<"D","o","c","k","e","r"," ","C","o","m","p","o","s","e"," ","v","e","r","s","i","o","n"," ","v","2",".","5",".","1","\n">>
ComposeV1 == <<"1",".","2","9",".","0">>
GroupsWithDocker == <<"u","s","e","r"," ","w","h","e","e","l"," ","d","o","c","k","e","r","\n">>
GroupsWithout == <<"u","s","e","r"," ","w","h","e","e","l","\n">>
PsHeader == <<"C","O","N","T","A","I","N","E","R"," ","I","D","\n">>

MkHost(d, pm, c, running, g) ==
    [docker |-> d, podman |-> pm, compose |-> c, ps |-> running, groups |-> g]

\* `docker --version` outputs that spell the engines' names in several ways.
DetectPieces ==
    { PODMAN, <<"P","o","d","m","a","n">>, <<"P","O","D","M","A","N">>,
      <<"p","o","d">>, <<"m","a","n">>, DOCKER, <<" ">> }

DetectHosts ==
    { MkHost(d, pm, Fail, Ok(PsHeader), Ok(GroupsWithDocker)) :
        d \in {Fail} \cup {Ok(out) : out \in ConcatsUpTo(DetectPieces, MaxPieces)},
        pm \in {Fail, Ok(PodmanNew)} }

\* `compose version` answers: a failure, or an output: every string of the
\* alphabet, and the two outputs the documentation names.
ComposeAlphabet == {"1", "2", ".", "v"}

ComposeOutputs ==
    StringsUpTo(ComposeAlphabet, MaxComposeLen) \cup {ComposeV2, ComposeV1}

ComposeHosts ==
    { MkHost(d[1], d[2], c, Ok(PsHeader), Ok(GroupsWithDocker)) :
        d \in {<<Ok(DockerReal), Fail>>, <<Fail, Ok(PodmanNew)>>},
        c \in {Fail} \cup {Ok(out) : out \in ComposeOutputs} }

\* The engines a host may have: Docker, Podman alone, the podman-docker
\* wrapper with Podman, the wrapper without a podman binary, or none.
EngineAnswers ==
    { <<Ok(DockerReal), Fail>>, <<Fail, Ok(PodmanNew)>>,
      <<Ok(PodmanCaps), Ok(PodmanNew)>>, <<Ok(PodmanNew), Fail>>, <<Fail, Fail>> }

\* `id -Gn` outputs: group names and white space in every order.
GroupPieces == { DOCKER, <<"x">>, <<" ">>, <<"\n">> }

GroupHosts ==
    { MkHost(e[1], e[2], Fail, Ok(PsHeader), g) :
        e \in EngineAnswers,
        g \in {Fail} \cup {Ok(out) : out \in ConcatsUpTo(GroupPieces, MaxPieces)} }

\* `podman --version` outputs: every string of the alphabet, and two real ones.
VersionAlphabet == {"4", ".", "1"}

VersionOutputs ==
    StringsUpTo(VersionAlphabet, MaxVersionLen) \cup {PodmanNew, PodmanOld}

NetHosts ==
    { MkHost(d, pm, Ok(ComposeV2), Ok(PsHeader), Ok(GroupsWithDocker)) :
        d \in {Fail, Ok(DockerReal), Ok(PodmanCaps)},
        pm \in {Fail} \cup {Ok(out) : out \in VersionOutputs} }

\* The hosts of the specifications whose inputs are arguments.
EngineHosts ==
    { MkHost(e[1], e[2], Ok(ComposeV2), Ok(PsHeader), Ok(GroupsWithDocker)) :
        e \in EngineAnswers }

\* Command templates: the engines' names, an argument and white space in
\* every order.
TemplatePieces == { DOCKER, PODMAN, PS_ARG, <<"d">>, <<" ">> }

Templates == ConcatsUpTo(TemplatePieces, MaxPieces)

\* The hosts of the cache's specification: Docker with compose 2, Podman
\* alone, the podman-docker wrapper, and no engine.
CacheHosts ==
    { MkHost(Ok(DockerReal), Fail, Ok(ComposeV2), Ok(PsHeader), Ok(GroupsWithDocker)),
      MkHost(Fail, Ok(PodmanOld), Fail, Ok(PsHeader), Ok(GroupsWithDocker)),
      MkHost(Ok(PodmanCaps), Ok(PodmanNew), Ok(ComposeV1), Ok(PsHeader), Ok(GroupsWithDocker)),
      MkHost(Fail, Fail, Fail, Ok(PsHeader), Ok(GroupsWithDocker)) }

\* The program a shell command line starts: its first word.
Program(cmd) == SplitWhiteSpace(TrimStart(cmd))[1]

\* Whether the host has the binary a command line starts.
Installed(h, cmd) ==
    \/ Program(cmd) = DOCKER /\ h.docker.ok
    \/ Program(cmd) = PODMAN /\ h.podman.ok

\* execAsync(cmd) on host h.
Exec(h, cmd) ==
    IF cmd = DOCKER \o VERSION_ARG THEN h.docker
    ELSE IF cmd = PODMAN \o VERSION_ARG THEN h.podman
    ELSE IF cmd = ID_GN THEN h.groups
    ELSE IF ~Installed(h, cmd) THEN Fail
    ELSE IF cmd \in {DOCKER \o COMPOSE_VERSION_ARG, PODMAN \o COMPOSE_VERSION_ARG}
    THEN h.compose
    ELSE IF cmd \in {DOCKER \o PS_ARG, PODMAN \o PS_ARG} THEN h.ps
    ELSE Ok(<<>>)

---------------------------------------------------------------------------
(* ContainerRuntime: state and frames *)

\* composeVersion of an info that has none.
Undefined == <<"undefined">>

\* runtimeInfo = null.  The stale field is history: the info was computed
\* from probes issued before a reset().
NullInfo ==
    [type |-> "null", version |-> <<>>, composeInstalled |-> FALSE,
     composeVersion |-> Undefined, stale |-> FALSE]

Top(p) == stack[p][Len(stack[p])]
Below(p) == stack[p][Len(stack[p]) - 1]
Depth(p) == Len(stack[p])
Settled(f) == f.pc \in {"return", "throw"}

\* The top-level call of p has settled: its frame stays, as the outcome its
\* caller has, until p makes its next call.
Done(p) == Depth(p) = 1 /\ Settled(Top(p))
Idle(p) == stack[p] = <<>> \/ Done(p)

\* The top frame of p awaits an external command.
AtExec(p, fn, pc) ==
    /\ Depth(p) >= 1
    /\ Top(p).fn = fn
    /\ Top(p).pc = pc

\* Frame fn of p awaits callee, which has settled.
AtAwait(p, fn, pc, callee) ==
    /\ Depth(p) >= 2
    /\ Below(p).fn = fn
    /\ Below(p).pc = pc
    /\ Top(p).fn = callee
    /\ Settled(Top(p))

\* The stack of p with its top frame replaced by frames fs.
SetTop(p, fs) ==
    [stack EXCEPT ![p] = SubSeq(@, 1, Len(@) - 1) \o fs]

\* The stack of p with the settled callee popped and the awaiting frame
\* replaced by frames fs.
Resume(p, fs) ==
    [stack EXCEPT ![p] = SubSeq(@, 1, Len(@) - 2) \o fs]

\* A top-level call of p: the frames fs it runs up to its first await.
Call(p, fs) ==
    /\ Idle(p)
    /\ stack' = [stack EXCEPT ![p] = fs]

\* A classification that looks for the lower-case name only.
ClassifyDocker_CaseSensitive(dockerVersion) ==
    IF Includes(dockerVersion, PODMAN) THEN "podman" ELSE "docker"

\* if (dockerVersion.toLowerCase().includes('podman'))
ClassifyDocker(dockerVersion) ==
    IF Includes(ToLowerCase(dockerVersion), PODMAN) THEN "podman" ELSE "docker"

\* A detectRuntime() that probes although a kind is cached.
DetectFrame_NoCache ==
    [fn |-> "detectRuntime", pc |-> "docker", val |-> "null",
     cmd |-> DOCKER \o VERSION_ARG, n |-> 1, prev |-> lastDetect]

\* detectRuntime() up to its first await: the cached kind, or the first probe.
\* n counts the commands the call has issued; prev is history: what the last
\* detectRuntime() returned, "none" after a reset().
DetectFrame ==
    IF detectedRuntime # "null"
    THEN [fn |-> "detectRuntime", pc |-> "return", val |-> detectedRuntime,
          cmd |-> <<>>, n |-> 0, prev |-> lastDetect]
    ELSE [fn |-> "detectRuntime", pc |-> "docker", val |-> "null",
          cmd |-> DOCKER \o VERSION_ARG, n |-> 1, prev |-> lastDetect]

\* lastDetect after a detectRuntime() call has been entered.
DetectEntered == IF detectedRuntime # "null" THEN detectedRuntime ELSE lastDetect

\* getRuntimeInfo() up to its first await, the call of detectRuntime().
\* during is history: a reset() ran while the call was in flight.
InfoFrames ==
    << [fn |-> "getRuntimeInfo", pc |-> "detect", rt |-> "null",
        info |-> NullInfo, val |-> NullInfo, cmd |-> <<>>, n |-> 0,
        during |-> FALSE],
       DetectFrame >>

---------------------------------------------------------------------------
(* detectRuntime *)

CallDetectRuntime(p) ==
    /\ Call(p, <<DetectFrame>>)
    /\ lastDetect' = DetectEntered
    /\ UNCHANGED <<detectedRuntime, runtimeInfo, host, hostChanges>>

\* `docker --version` settles.
DetectDockerDone(p) ==
    /\ AtExec(p, "detectRuntime", "docker")
    /\ LET r == Exec(host, Top(p).cmd)
           k == ClassifyDocker(r.stdout)
       IN  IF r.ok
           THEN /\ detectedRuntime' = k
                /\ lastDetect' = k
                /\ stack' = SetTop(p, << [Top(p) EXCEPT !.pc = "return",
                                            !.val = k, !.cmd = <<>>] >>)
           ELSE /\ stack' = SetTop(p, << [Top(p) EXCEPT !.pc = "podman",
                                            !.cmd = PODMAN \o VERSION_ARG,
                                            !.n = @ + 1] >>)
                /\ UNCHANGED <<detectedRuntime, lastDetect>>
    /\ UNCHANGED <<runtimeInfo, host, hostChanges>>

\* A detectRuntime() that drops the cached info when it finds no engine.
DetectPodmanDone_ClearsInfo(p) ==
    /\ AtExec(p, "detectRuntime", "podman")
    /\ LET r == Exec(host, Top(p).cmd)
           k == IF r.ok THEN "podman" ELSE "null"
       IN  /\ detectedRuntime' = IF r.ok THEN "podman" ELSE detectedRuntime
           /\ runtimeInfo' = IF r.ok THEN runtimeInfo ELSE NullInfo
           /\ lastDetect' = k
           /\ stack' = SetTop(p, << [Top(p) EXCEPT !.pc = "return",
                                       !.val = k, !.cmd = <<>>] >>)
    /\ UNCHANGED <<host, hostChanges>>

\* A detectRuntime() that returns the Podman it found without caching it.
DetectPodmanDone_NotCached(p) ==
    /\ AtExec(p, "detectRuntime", "podman")
    /\ LET r == Exec(host, Top(p).cmd)
           k == IF r.ok THEN "podman" ELSE "null"
       IN  /\ lastDetect' = k
           /\ stack' = SetTop(p, << [Top(p) EXCEPT !.pc = "return",
                                       !.val = k, !.cmd = <<>>] >>)
    /\ UNCHANGED <<detectedRuntime, runtimeInfo, host, hostChanges>>

\* A detectRuntime() whose failed probes clear the cached kind.
DetectPodmanDone_CachesNull(p) ==
    /\ AtExec(p, "detectRuntime", "podman")
    /\ LET r == Exec(host, Top(p).cmd)
           k == IF r.ok THEN "podman" ELSE "null"
       IN  /\ detectedRuntime' = k
           /\ lastDetect' = k
           /\ stack' = SetTop(p, << [Top(p) EXCEPT !.pc = "return",
                                       !.val = k, !.cmd = <<>>] >>)
    /\ UNCHANGED <<runtimeInfo, host, hostChanges>>

\* `podman --version` settles.
DetectPodmanDone(p) ==
    /\ AtExec(p, "detectRuntime", "podman")
    /\ LET r == Exec(host, Top(p).cmd)
       IN  IF r.ok
           THEN /\ detectedRuntime' = "podman"
                /\ lastDetect' = "podman"
                /\ stack' = SetTop(p, << [Top(p) EXCEPT !.pc = "return",
                                            !.val = "podman", !.cmd = <<>>] >>)
           ELSE /\ lastDetect' = "null"
                /\ stack' = SetTop(p, << [Top(p) EXCEPT !.pc = "return",
                                            !.val = "null", !.cmd = <<>>] >>)
                /\ UNCHANGED detectedRuntime
    /\ UNCHANGED <<runtimeInfo, host, hostChanges>>

---------------------------------------------------------------------------
(* getRuntimeInfo *)

CallGetRuntimeInfo(p) ==
    /\ Call(p, InfoFrames)
    /\ lastDetect' = DetectEntered
    /\ UNCHANGED <<detectedRuntime, runtimeInfo, host, hostChanges>>

\* A cache that serves an info only if it found compose.
CacheServes_OnlyWithCompose(runtime) ==
    /\ runtimeInfo.type # "null"
    /\ runtimeInfo.type = runtime
    /\ runtimeInfo.composeInstalled

\* A cache that serves whatever info it holds.
CacheServes_AnyType(runtime) == runtimeInfo.type # "null"

\* The cached info may be served for the resolved kind.
CacheServes(runtime) ==
    /\ runtimeInfo.type # "null"
    /\ runtimeInfo.type = runtime

\* An info that is always Docker's.
FreshInfo_AlwaysDocker(runtime) ==
    [type |-> "docker", version |-> <<>>, composeInstalled |-> FALSE,
     composeVersion |-> Undefined, stale |-> FALSE]

\* The info getRuntimeInfo starts from.
FreshInfo(runtime) ==
    [type |-> runtime, version |-> <<>>, composeInstalled |-> FALSE,
     composeVersion |-> Undefined, stale |-> FALSE]

\* detectRuntime() has settled: no runtime, the cached info, or the
\* `{runtime} --version` probe.
InfoAfterDetect(p) ==
    /\ AtAwait(p, "getRuntimeInfo", "detect", "detectRuntime")
    /\ LET runtime == Top(p).val
           f == Below(p)
       IN  stack' = Resume(p,
             IF runtime = "null"
             THEN << [f EXCEPT !.pc = "return", !.val = NullInfo] >>
             ELSE IF CacheServes(runtime)
             THEN << [f EXCEPT !.pc = "return", !.rt = runtime,
                               !.val = runtimeInfo] >>
             ELSE << [f EXCEPT !.pc = "version", !.rt = runtime,
                               !.info = FreshInfo(runtime),
                               !.cmd = KindName(runtime) \o VERSION_ARG,
                               !.n = @ + 1] >>)
    /\ UNCHANGED <<detectedRuntime, runtimeInfo, host, hostChanges, lastDetect>>

\* A getRuntimeInfo() that caches the info it has built so far when the
\* `--version` probe fails.
InfoVersionDone_CachesPartial(p) ==
    /\ AtExec(p, "getRuntimeInfo", "version")
    /\ LET r == Exec(host, Top(p).cmd)
           f == Top(p)
       IN  /\ stack' = SetTop(p,
                 IF r.ok
                 THEN << [f EXCEPT !.pc = "compose",
                                   !.info.version = Trim(r.stdout),
                                   !.cmd = KindName(f.rt) \o COMPOSE_VERSION_ARG,
                                   !.n = @ + 1] >>
                 ELSE << [f EXCEPT !.pc = "return", !.val = NullInfo,
                                   !.cmd = <<>>] >>)
           /\ runtimeInfo' = IF r.ok THEN runtimeInfo ELSE f.info
    /\ UNCHANGED <<detectedRuntime, host, hostChanges, lastDetect>>

\* `{runtime} --version` settles.
InfoVersionDone(p) ==
    /\ AtExec(p, "getRuntimeInfo", "version")
    /\ LET r == Exec(host, Top(p).cmd)
           f == Top(p)
       IN  stack' = SetTop(p,
             IF r.ok
             THEN << [f EXCEPT !.pc = "compose",
                               !.info.version = Trim(r.stdout),
                               !.cmd = KindName(f.rt) \o COMPOSE_VERSION_ARG,
                               !.n = @ + 1] >>
             ELSE << [f EXCEPT !.pc = "return", !.val = NullInfo,
                               !.cmd = <<>>] >>)
    /\ UNCHANGED <<detectedRuntime, runtimeInfo, host, hostChanges, lastDetect>>

\* A gate that reads the first digit of the version only.
ComposeChecked_FirstDigit(info, r) ==
    LET versionMatch == VersionMatch(r.stdout)
    IN  IF r.ok /\ r.stdout # <<>> /\ versionMatch # <<>>
        THEN [info EXCEPT
                !.composeVersion = versionMatch,
                !.composeInstalled = DigitVal(versionMatch[1]) >= MinComposeMajor]
        ELSE [info EXCEPT !.composeInstalled = (r.ok /\ @)]

\* A gate that lets compose 1.x pass.
ComposeChecked_MajorAtLeastOne(info, r) ==
    LET versionMatch == VersionMatch(r.stdout)
    IN  IF r.ok /\ r.stdout # <<>> /\ versionMatch # <<>>
        THEN [info EXCEPT
                !.composeVersion = versionMatch,
                !.composeInstalled = ParseInt(BeforeDot(versionMatch)) >= MinComposeMajor - 1]
        ELSE [info EXCEPT !.composeInstalled = (r.ok /\ @)]

\* The info after the compose probe has settled with r.
ComposeChecked(info, r) ==
    LET versionMatch == VersionMatch(r.stdout)
    IN  IF r.ok /\ r.stdout # <<>> /\ versionMatch # <<>>
        THEN [info EXCEPT
                !.composeVersion = versionMatch,
                !.composeInstalled = ParseInt(BeforeDot(versionMatch)) >= MinComposeMajor]
        ELSE [info EXCEPT !.composeInstalled = (r.ok /\ @)]

\* A getRuntimeInfo() without the inner try: a failing compose probe is
\* caught by the outer catch, which returns null.
InfoComposeDone_NoInnerTry(p) ==
    /\ AtExec(p, "getRuntimeInfo", "compose")
    /\ LET f == Top(p)
           r == Exec(host, f.cmd)
           info == ComposeChecked(f.info, r)
       IN  /\ runtimeInfo' = IF r.ok THEN info ELSE runtimeInfo
           /\ stack' = SetTop(p, << [f EXCEPT !.pc = "return",
                                              !.val = IF r.ok THEN info ELSE NullInfo,
                                              !.info = NullInfo,
                                              !.cmd = <<>>] >>)
    /\ UNCHANGED <<detectedRuntime, host, hostChanges, lastDetect>>

\* `{runtime} compose version` settles with r: the info is cached and
\* returned.
InfoComposeDone(p) ==
    /\ AtExec(p, "getRuntimeInfo", "compose")
    /\ \E r \in {Exec(host, Top(p).cmd)} :
       \E info \in {ComposeChecked(Top(p).info, r)} :
       LET f == Top(p)
       IN  /\ runtimeInfo' = info
           /\ stack' = SetTop(p, << [f EXCEPT !.pc = "return", !.val = info,
                                              !.info = NullInfo,
                                              !.cmd = <<>>] >>)
    /\ UNCHANGED <<detectedRuntime, host, hostChanges, lastDetect>>

---------------------------------------------------------------------------
(* getCommand, execCommand *)

\* getCommand() up to its first await.
CommandFrames ==
    << [fn |-> "getCommand", pc |-> "detect", val |-> <<>>], DetectFrame >>

\* A getCommand() that caches the name it falls back to.
CommandAfterDetect_CachesDefault(p) ==
    /\ AtAwait(p, "getCommand", "detect", "detectRuntime")
    /\ LET runtime == Top(p).val
       IN  /\ stack' = Resume(p, << [Below(p) EXCEPT
                                       !.pc = "return",
                                       !.val = IF runtime = "null" THEN DOCKER
                                               ELSE KindName(runtime)] >>)
           /\ detectedRuntime' = IF runtime = "null" THEN "docker"
                                  ELSE detectedRuntime
    /\ UNCHANGED <<runtimeInfo, host, hostChanges, lastDetect>>

\* return runtime || 'docker'
CommandAfterDetect(p) ==
    /\ AtAwait(p, "getCommand", "detect", "detectRuntime")
    /\ LET runtime == Top(p).val
       IN  stack' = Resume(p, << [Below(p) EXCEPT
                                    !.pc = "return",
                                    !.val = IF runtime = "null" THEN DOCKER
                                            ELSE KindName(runtime)] >>)
    /\ UNCHANGED <<detectedRuntime, runtimeInfo, host, hostChanges, lastDetect>>

\* execCommand(command) up to its first await.
ExecFrames(command) ==
    << [fn |-> "execCommand", pc |-> "getCommand", arg |-> command,
        rt |-> <<>>, cmd |-> <<>>, val |-> <<>>] >> \o CommandFrames

CallExecCommand(p, command) ==
    /\ Call(p, ExecFrames(command))
    /\ lastDetect' = DetectEntered
    /\ UNCHANGED <<detectedRuntime, runtimeInfo, host, hostChanges>>

\* getCommand() has settled: the rewritten command is executed.
ExecAfterGetCommand(p) ==
    /\ AtAwait(p, "execCommand", "getCommand", "getCommand")
    /\ LET runtime == Top(p).val
       IN  stack' = Resume(p, << [Below(p) EXCEPT
                                    !.pc = "exec",
                                    !.rt = runtime,
                                    !.cmd = ReplaceLeadingEngine(Below(p).arg, runtime)] >>)
    /\ UNCHANGED <<detectedRuntime, runtimeInfo, host, hostChanges, lastDetect>>

\* The command settles: its output is returned, its failure is thrown.
ExecCommandDone(p) ==
    /\ AtExec(p, "execCommand", "exec")
    /\ LET r == Exec(host, Top(p).cmd)
       IN  stack' = SetTop(p, << [Top(p) EXCEPT
                                    !.pc = IF r.ok THEN "return" ELSE "throw",
                                    !.val = r.stdout] >>)
    /\ UNCHANGED <<detectedRuntime, runtimeInfo, host, hostChanges, lastDetect>>

---------------------------------------------------------------------------
(* isUserInRuntimeGroup, requiresGroupMembership *)

\* isUserInRuntimeGroup() up to its first await.
GroupFrames ==
    << [fn |-> "isUserInRuntimeGroup", pc |-> "detect", rt |-> "null",
        cmd |-> <<>>, val |-> FALSE],
       DetectFrame >>

CallIsUserInRuntimeGroup(p) ==
    /\ Call(p, GroupFrames)
    /\ lastDetect' = DetectEntered
    /\ UNCHANGED <<detectedRuntime, runtimeInfo, host, hostChanges>>

\* detectRuntime() has settled: false without a runtime, true for Podman,
\* `id -Gn` for Docker.
GroupAfterDetect(p) ==
    /\ AtAwait(p, "isUserInRuntimeGroup", "detect", "detectRuntime")
    /\ LET runtime == Top(p).val
           f == Below(p)
       IN  stack' = Resume(p,
             IF runtime = "null"
             THEN << [f EXCEPT !.pc = "return", !.val = FALSE] >>
             ELSE IF runtime = "podman"
             THEN << [f EXCEPT !.pc = "return", !.rt = runtime, !.val = TRUE] >>
             ELSE << [f EXCEPT !.pc = "id", !.rt = runtime, !.cmd = ID_GN] >>)
    /\ UNCHANGED <<detectedRuntime, runtimeInfo, host, hostChanges, lastDetect>>

\* A check that looks for "docker" anywhere in the listing.
InDockerGroup_Substring(userGroups) == Includes(userGroups, DOCKER)

\* userGroups.split(/\s+/).includes('docker')
InDockerGroup(userGroups) == ArrayIncludes(SplitWhiteSpace(userGroups), DOCKER)

\* `id -Gn` settles; its failure is caught.
GroupIdDone(p) ==
    /\ AtExec(p, "isUserInRuntimeGroup", "id")
    /\ LET r == Exec(host, Top(p).cmd)
       IN  stack' = SetTop(p, << [Top(p) EXCEPT
                                    !.pc = "return",
                                    !.cmd = <<>>,
                                    !.val = r.ok /\ InDockerGroup(r.stdout)] >>)
    /\ UNCHANGED <<detectedRuntime, runtimeInfo, host, hostChanges, lastDetect>>

\* requiresGroupMembership() up to its first await.
RequiresFrames ==
    << [fn |-> "requiresGroupMembership", pc |-> "detect", val |-> FALSE],
       DetectFrame >>

CallRequiresGroupMembership(p) ==
    /\ Call(p, RequiresFrames)
    /\ lastDetect' = DetectEntered
    /\ UNCHANGED <<detectedRuntime, runtimeInfo, host, hostChanges>>

\* A requiresGroupMembership() that is true for everything but Podman.
RequiresAfterDetect_NotPodman(p) ==
    /\ AtAwait(p, "requiresGroupMembership", "detect", "detectRuntime")
    /\ stack' = Resume(p, << [Below(p) EXCEPT
                                !.pc = "return",
                                !.val = (Top(p).val # "podman")] >>)
    /\ UNCHANGED <<detectedRuntime, runtimeInfo, host, hostChanges, lastDetect>>

\* return runtime === 'docker'
RequiresAfterDetect(p) ==
    /\ AtAwait(p, "requiresGroupMembership", "detect", "detectRuntime")
    /\ stack' = Resume(p, << [Below(p) EXCEPT
                                !.pc = "return",
                                !.val = (Top(p).val = "docker")] >>)
    /\ UNCHANGED <<detectedRuntime, runtimeInfo, host, hostChanges, lastDetect>>

---------------------------------------------------------------------------
(* getNetworkMode *)

\* getNetworkMode() up to its first await.
NetFrames ==
    << [fn |-> "getNetworkMode", pc |-> "detect", rt |-> "null",
        val |-> Undefined],
       DetectFrame >>

CallGetNetworkMode(p) ==
    /\ Call(p, NetFrames)
    /\ lastDetect' = DetectEntered
    /\ UNCHANGED <<detectedRuntime, runtimeInfo, host, hostChanges>>

\* detectRuntime() has settled: getRuntimeInfo() for Podman, undefined else.
NetAfterDetect(p) ==
    /\ AtAwait(p, "getNetworkMode", "detect", "detectRuntime")
    /\ LET runtime == Top(p).val
           f == Below(p)
       IN  IF runtime = "podman"
           THEN /\ stack' = Resume(p, << [f EXCEPT !.pc = "info", !.rt = runtime] >>
                                      \o InfoFrames)
                /\ lastDetect' = DetectEntered
           ELSE /\ stack' = Resume(p, << [f EXCEPT !.pc = "return", !.rt = runtime,
                                                   !.val = Undefined] >>)
                /\ UNCHANGED lastDetect
    /\ UNCHANGED <<detectedRuntime, runtimeInfo, host, hostChanges>>

\* A choice that wants the version to start with "4.4".
NetworkModeFor_StartsWith(info) ==
    IF info.type # "null" /\ info.version # <<>> /\ StartsWith(info.version, FOUR_FOUR)
    THEN PASTA
    ELSE SLIRP4NETNS

\* if (info?.version && info.version.includes('4.4')) return 'pasta';
\* return 'slirp4netns';
NetworkModeFor(info) ==
    IF info.type # "null" /\ info.version # <<>> /\ Includes(info.version, FOUR_FOUR)
    THEN PASTA
    ELSE SLIRP4NETNS

\* getRuntimeInfo() has settled; had it thrown, the catch returns the same
\* fallback.
NetAfterInfo(p) ==
    /\ AtAwait(p, "getNetworkMode", "info", "getRuntimeInfo")
    /\ stack' = Resume(p, << [Below(p) EXCEPT
                                !.pc = "return",
                                !.val = IF Top(p).pc = "throw" THEN SLIRP4NETNS
                                        ELSE NetworkModeFor(Top(p).val)] >>)
    /\ UNCHANGED <<detectedRuntime, runtimeInfo, host, hostChanges, lastDetect>>

---------------------------------------------------------------------------
(* satisfiesPrequisites (specs.ts) *)

\* The Specs records checked.  ramGB is kept in hundredths of a GB, the
\* precision getMemoryInfo rounds to.
SpecsInputs ==
    [cpuCores : {1, 2}, ramGB : {399, 400},
     kvmEnabled : BOOLEAN, dockerInstalled : BOOLEAN,
     dockerComposeInstalled : BOOLEAN, dockerIsRunning : BOOLEAN,
     dockerIsInUserGroups : BOOLEAN, freeRDP3Installed : BOOLEAN,
     ipTablesLoaded : BOOLEAN, iptableNatLoaded : BOOLEAN]

defaultSpecs ==
    [cpuCores |-> 0, ramGB |-> 0, kvmEnabled |-> FALSE,
     dockerInstalled |-> FALSE, dockerComposeInstalled |-> FALSE,
     dockerIsRunning |-> FALSE, dockerIsInUserGroups |-> FALSE,
     freeRDP3Installed |-> FALSE, ipTablesLoaded |-> FALSE,
     iptableNatLoaded |-> FALSE]

\* A predicate that wants more than 4 GB.
Satisfies_MoreThanMinRam(specs, requiresGroup) ==
    LET groupCheckPassed == IF requiresGroup THEN specs.dockerIsInUserGroups ELSE TRUE
    IN  /\ specs.dockerInstalled
        /\ specs.dockerComposeInstalled
        /\ specs.dockerIsRunning
        /\ groupCheckPassed
        /\ specs.freeRDP3Installed
        /\ specs.ipTablesLoaded
        /\ specs.iptableNatLoaded
        /\ specs.kvmEnabled
        /\ specs.ramGB > MinRamGB * 100
        /\ specs.cpuCores >= MinCpuCores

\* The value satisfiesPrequisites returns.
Satisfies(specs, requiresGroup) ==
    LET groupCheckPassed == IF requiresGroup THEN specs.dockerIsInUserGroups ELSE TRUE
    IN  /\ specs.dockerInstalled
        /\ specs.dockerComposeInstalled
        /\ specs.dockerIsRunning
        /\ groupCheckPassed
        /\ specs.freeRDP3Installed
        /\ specs.ipTablesLoaded
        /\ specs.iptableNatLoaded
        /\ specs.kvmEnabled
        /\ specs.ramGB >= MinRamGB * 100
        /\ specs.cpuCores >= MinCpuCores

\* satisfiesPrequisites(specs) up to its first await.
PrereqFrames(specs) ==
    << [fn |-> "satisfiesPrequisites", pc |-> "requires", specs |-> specs,
        requiresGroup |-> FALSE, val |-> FALSE] >> \o RequiresFrames

CallSatisfiesPrequisites(p, specs) ==
    /\ Call(p, PrereqFrames(specs))
    /\ lastDetect' = DetectEntered
    /\ UNCHANGED <<detectedRuntime, runtimeInfo, host, hostChanges>>

\* requiresGroupMembership() has settled.
PrereqAfterRequires(p) ==
    /\ AtAwait(p, "satisfiesPrequisites", "requires", "requiresGroupMembership")
    /\ stack' = Resume(p, << [Below(p) EXCEPT
                                !.pc = "return",
                                !.requiresGroup = Top(p).val,
                                !.val = Satisfies(Below(p).specs, Top(p).val)] >>)
    /\ UNCHANGED <<detectedRuntime, runtimeInfo, host, hostChanges, lastDetect>>

---------------------------------------------------------------------------
(* reset, the host *)

\* What reset() means for a call in flight (history only): the calls that
\* are in flight no longer follow the last detectRuntime() without a reset,
\* and the probes they have issued were issued before the reset.
MarkReset(f) ==
    IF Settled(f) THEN f
    ELSE IF f.fn = "detectRuntime" THEN [f EXCEPT !.prev = "none"]
    ELSE IF f.fn = "getRuntimeInfo"
    THEN [f EXCEPT !.during = TRUE,
                   !.info.stale = (f.pc \in {"version", "compose"})]
    ELSE f

Reset ==
    /\ detectedRuntime' = "null"
    /\ runtimeInfo' = NullInfo
    /\ lastDetect' = "none"
    /\ stack' = [p \in Callers |->
                   [i \in 1..Len(stack[p]) |-> MarkReset(stack[p][i])]]
    /\ UNCHANGED <<host, hostChanges>>

\* An engine is installed or removed while the process runs.
HostChange(hs) ==
    /\ hostChanges < MaxHostChanges
    /\ \E h \in hs \ {host} : host' = h
    /\ hostChanges' = hostChanges + 1
    /\ UNCHANGED <<detectedRuntime, runtimeInfo, stack, lastDetect>>

---------------------------------------------------------------------------
(* Specification of the cache: callers of detectRuntime, getRuntimeInfo and *)
(* reset, interleaved at the awaits.                                       *)

InitOn(hs) ==
    /\ detectedRuntime = "null"
    /\ runtimeInfo = NullInfo
    /\ host \in hs
    /\ hostChanges = 0
    /\ stack = [p \in Callers |-> <<>>]
    /\ lastDetect = "none"

Init == InitOn(CacheHosts)

Next ==
    \/ \E p \in Callers : CallDetectRuntime(p)
    \/ \E p \in Callers : DetectDockerDone(p)
    \/ \E p \in Callers : DetectPodmanDone(p)
    \/ \E p \in Callers : CallGetRuntimeInfo(p)
    \/ \E p \in Callers : InfoAfterDetect(p)
    \/ \E p \in Callers : InfoVersionDone(p)
    \/ \E p \in Callers : InfoComposeDone(p)
    \/ Reset
    \/ HostChange(CacheHosts)

Spec == Init /\ [][Next]_vars

---------------------------------------------------------------------------
(* Claims about the cache, under Spec *)

\* A detectRuntime() call of p, top-level or inside another call, has settled.
DetectSettled(p, i) ==
    /\ stack[p][i].fn = "detectRuntime"
    /\ Settled(stack[p][i])

\* A getRuntimeInfo() call of p has settled.
InfoSettled(p, i) ==
    /\ stack[p][i].fn = "getRuntimeInfo"
    /\ Settled(stack[p][i])

\* C1 as stated: a detectRuntime() call that follows another one with no
\* reset() in between returns what that one returned and runs no command.
C1_SecondCallFromCache ==
    \A p \in Callers : \A i \in 1..Len(stack[p]) :
        (DetectSettled(p, i) /\ stack[p][i].prev # "none")
            => /\ stack[p][i].val = stack[p][i].prev
               /\ stack[p][i].n = 0

\* C1 amended: a detectRuntime() call that follows one that returned a kind
\* ('docker' or 'podman'), with no reset() in between, returns the same kind
\* and runs no command.  (After a call that returned null nothing is cached.)
C1_SecondCallFromCacheAfterKind ==
    \A p \in Callers : \A i \in 1..Len(stack[p]) :
        (DetectSettled(p, i) /\ stack[p][i].prev \in {"docker", "podman"})
            => /\ stack[p][i].val = stack[p][i].prev
               /\ stack[p][i].n = 0

\* C1 witness: a second call has been served the kind of the first.
C1_Witness ==
    \E p \in Callers :
        /\ Done(p)
        /\ Top(p).fn = "detectRuntime"
        /\ Top(p).prev = "podman"
        /\ Top(p).val = "podman"
        /\ Top(p).n = 0

\* C2 as stated: whenever both are cached, the info's type is the kind.
C2_InfoTypeIsKind ==
    (detectedRuntime # "null" /\ runtimeInfo.type # "null")
        => runtimeInfo.type = detectedRuntime

\* C2 amended: as long as the host's answers have not changed, whenever both
\* are cached, the info's type is the kind, whatever the interleaving.
C2_InfoTypeIsKindOnSameHost ==
    (hostChanges = 0 /\ detectedRuntime # "null" /\ runtimeInfo.type # "null")
        => runtimeInfo.type = detectedRuntime

\* C2 witness: both are cached on an unchanged host while a getRuntimeInfo()
\* call that a reset() has overtaken is still waiting for a command.
C2_Witness ==
    /\ hostChanges = 0
    /\ detectedRuntime = "podman"
    /\ runtimeInfo.type = "podman"
    /\ \E p \in Callers :
        /\ Depth(p) = 1
        /\ Top(p).fn = "getRuntimeInfo"
        /\ Top(p).pc = "compose"
        /\ Top(p).during

\* C3: a getRuntimeInfo() call that started after every reset() so far does
\* not return an info computed from probes issued before a reset().
C3_NoStaleInfoAfterReset ==
    \A p \in Callers :
        (/\ Done(p)
         /\ Top(p).fn = "getRuntimeInfo"
         /\ ~Top(p).during
         /\ Top(p).val.type # "null")
            => ~Top(p).val.stale

\* C4: a getRuntimeInfo() call that builds or returns an info builds or
\* returns one of the kind its own detectRuntime() resolved.
C4_ReturnedInfoOfResolvedKind ==
    \A p \in Callers : \A i \in 1..Len(stack[p]) :
        /\ (InfoSettled(p, i) /\ stack[p][i].val.type # "null")
              => stack[p][i].val.type = stack[p][i].rt
        /\ (stack[p][i].fn = "getRuntimeInfo"
              /\ stack[p][i].pc \in {"version", "compose"})
              => stack[p][i].info.type = stack[p][i].rt

\* C4 witness: a call has resolved one kind while the cache held an info of
\* the other kind, and is rebuilding the info.
C4_Witness ==
    \E p \in Callers :
        /\ Depth(p) = 1
        /\ Top(p).fn = "getRuntimeInfo"
        /\ Top(p).pc = "version"
        /\ runtimeInfo.type # "null"
        /\ runtimeInfo.type # Top(p).rt

---------------------------------------------------------------------------
(* Detection on every spelling of the engines' names: one caller of        *)
(* detectRuntime and reset.                                                *)

ApiCaller == CHOOSE p \in Callers : \A q \in Callers : p <= q

NextDetect ==
    \/ CallDetectRuntime(ApiCaller)
    \/ DetectDockerDone(ApiCaller)
    \/ DetectPodmanDone(ApiCaller)
    \/ Reset

SpecDetect == InitOn(DetectHosts) /\ [][NextDetect]_vars

PODMAN_UPPER == <<"P","O","D","M","A","N">>

\* The output spells "podman" somewhere, in any letter case.
MentionsPodman(out) ==
    \E i \in 1..Len(out) :
        /\ i + 5 <= Len(out)
        /\ \A j \in 1..6 : out[i + j - 1] \in {PODMAN[j], PODMAN_UPPER[j]}

\* C5: when `docker --version` succeeds for a detectRuntime() call that found
\* the cache empty, the call returns and caches 'podman' if the output
\* mentions podman and 'docker' otherwise.
C5_DockerAnswerDecides ==
    [][\A p \in Callers :
         (/\ AtExec(p, "detectRuntime", "docker")
          /\ host.docker.ok
          /\ stack'[p][Len(stack'[p])].pc # "docker")
            => LET kind == IF MentionsPodman(host.docker.stdout)
                           THEN "podman" ELSE "docker"
               IN  /\ stack'[p][Len(stack'[p])].pc = "return"
                   /\ stack'[p][Len(stack'[p])].val = kind
                   /\ detectedRuntime' = kind]_vars

\* C5 witness: the wrapper's output, spelled with capitals, made 'podman'.
C5_Witness ==
    /\ Done(ApiCaller)
    /\ Top(ApiCaller).fn = "detectRuntime"
    /\ Top(ApiCaller).n = 1
    /\ Top(ApiCaller).val = "podman"
    /\ detectedRuntime = "podman"
    /\ host.docker.ok
    /\ MentionsPodman(host.docker.stdout)
    /\ ~Includes(host.docker.stdout, PODMAN)

---------------------------------------------------------------------------
(* The compose probe on every output: one caller of getRuntimeInfo.        *)

NextCompose ==
    \/ CallGetRuntimeInfo(ApiCaller)
    \/ DetectDockerDone(ApiCaller)
    \/ DetectPodmanDone(ApiCaller)
    \/ InfoAfterDetect(ApiCaller)
    \/ InfoVersionDone(ApiCaller)
    \/ InfoComposeDone(ApiCaller)

SpecCompose == InitOn(ComposeHosts) /\ [][NextCompose]_vars

AllDigits(s, i, j) == i <= j /\ \A k \in i..j : s[k] \in Digits

\* s[i..j] is digits "." digits "." digits, the first dot at a.
SemverAt(s, i, a, j) ==
    \E b \in (a + 1)..j :
        /\ s[a] = "." /\ s[b] = "."
        /\ AllDigits(s, i, a - 1)
        /\ AllDigits(s, a + 1, b - 1)
        /\ AllDigits(s, b + 1, j)

HasSemver(s) ==
    \E i \in 1..Len(s) : \E a \in i..Len(s) : \E j \in a..Len(s) : SemverAt(s, i, a, j)

\* s[i..j] is the first match of \d+\.\d+\.\d+ in s: no match starts before
\* i, and none that starts at i is longer.
FirstSemver(s, i, a, j) ==
    /\ SemverAt(s, i, a, j)
    /\ \A i2 \in 1..Len(s) : \A a2 \in i2..Len(s) : \A j2 \in a2..Len(s) :
          SemverAt(s, i2, a2, j2) => (i2 > i \/ (i2 = i /\ j2 <= j))

\* The number the digits s[i..j] write is at least 2.
AtLeastTwo(s, i, j) ==
    \/ \E k \in i..j : s[k] \notin {"0", "1"}
    \/ \E k \in i..(j - 1) : s[k] # "0"

\* C6: the info built from a compose-probe output has composeInstalled = true
\* if and only if the output contains a match of \d+\.\d+\.\d+ whose major
\* component is >= 2, and composeVersion is the first match when there is one.
C6_ComposeGating ==
    \A p \in Callers :
        (/\ Done(p)
         /\ Top(p).fn = "getRuntimeInfo"
         /\ Top(p).n = 2)
            => LET out == host.compose.stdout
                   info == Top(p).val
               IN  /\ ~HasSemver(out)
                        => /\ ~info.composeInstalled
                           /\ info.composeVersion = Undefined
                   /\ \A i \in 1..Len(out) : \A a \in i..Len(out) : \A j \in a..Len(out) :
                        FirstSemver(out, i, a, j)
                            => /\ info.composeVersion = SubSeq(out, i, j)
                               /\ info.composeInstalled = AtLeastTwo(out, i, a - 1)

\* C6 witness: a two-digit major that starts with 1 counts as installed.
C6_Witness ==
    /\ Done(ApiCaller)
    /\ Top(ApiCaller).fn = "getRuntimeInfo"
    /\ Top(ApiCaller).n = 2
    /\ Top(ApiCaller).val.composeInstalled
    /\ Top(ApiCaller).val.composeVersion = <<"1","2",".","1",".","1">>

---------------------------------------------------------------------------
(* The group check on every `id -Gn` output: one caller of                 *)
(* isUserInRuntimeGroup, requiresGroupMembership and reset.                *)

NextGroups ==
    \/ CallIsUserInRuntimeGroup(ApiCaller)
    \/ CallRequiresGroupMembership(ApiCaller)
    \/ DetectDockerDone(ApiCaller)
    \/ DetectPodmanDone(ApiCaller)
    \/ GroupAfterDetect(ApiCaller)
    \/ GroupIdDone(ApiCaller)
    \/ RequiresAfterDetect(ApiCaller)
    \/ Reset

SpecGroups == InitOn(GroupHosts) /\ [][NextGroups]_vars

\* "docker" is one of the white-space separated words of s.
DockerIsWord(s) ==
    \E i \in 1..Len(s) :
        /\ i + 5 <= Len(s)
        /\ \A j \in 1..6 : s[i + j - 1] = DOCKER[j]
        /\ (i = 1 \/ s[i - 1] \in WhiteSpace)
        /\ (i + 5 = Len(s) \/ s[i + 6] \in WhiteSpace)

\* C7: isUserInRuntimeGroup() never throws; it returns true for 'podman'
\* whatever the groups, and for 'docker' it returns true if and only if
\* `id -Gn` succeeds and 'docker' is one of the words of its output.
C7_GroupCheck ==
    \A p \in Callers :
        (Done(p) /\ Top(p).fn = "isUserInRuntimeGroup")
            => /\ Top(p).pc = "return"
               /\ Top(p).rt = "podman" => Top(p).val
               /\ Top(p).rt = "docker"
                    => Top(p).val = (host.groups.ok /\ DockerIsWord(host.groups.stdout))

\* C7 witness: Docker, and a listing that has "docker" only inside a longer
\* word: the check returned false.
C7_Witness ==
    /\ Done(ApiCaller)
    /\ Top(ApiCaller).fn = "isUserInRuntimeGroup"
    /\ Top(ApiCaller).rt = "docker"
    /\ host.groups.ok
    /\ Includes(host.groups.stdout, DOCKER)
    /\ ~Top(ApiCaller).val

---------------------------------------------------------------------------
(* The network mode on every version output: one caller of getNetworkMode  *)
(* and reset.                                                              *)

NextNet ==
    \/ CallGetNetworkMode(ApiCaller)
    \/ DetectDockerDone(ApiCaller)
    \/ DetectPodmanDone(ApiCaller)
    \/ NetAfterDetect(ApiCaller)
    \/ InfoAfterDetect(ApiCaller)
    \/ InfoVersionDone(ApiCaller)
    \/ InfoComposeDone(ApiCaller)
    \/ NetAfterInfo(ApiCaller)
    \/ Reset

SpecNet == InitOn(NetHosts) /\ [][NextNet]_vars

\* s has the characters 4 . 4 in a row.
HasFourDotFour(s) ==
    \E i \in 1..Len(s) :
        i + 2 <= Len(s) /\ s[i] = "4" /\ s[i + 1] = "." /\ s[i + 2] = "4"

---------------------------------------------------------------------------
(* The readiness predicate on every Specs record: one caller of            *)
(* satisfiesPrequisites and reset.                                         *)

NextPrereq ==
    \/ \E specs \in SpecsInputs \cup {defaultSpecs} :
          CallSatisfiesPrequisites(ApiCaller, specs)
    \/ DetectDockerDone(ApiCaller)
    \/ DetectPodmanDone(ApiCaller)
    \/ RequiresAfterDetect(ApiCaller)
    \/ PrereqAfterRequires(ApiCaller)
    \/ Reset

SpecPrereq == InitOn(EngineHosts) /\ [][NextPrereq]_vars

\* C9: satisfiesPrequisites(specs) is true if and only if no readiness flag
\* is false, ramGB >= 4, cpuCores >= 2, and group membership is not required
\* or dockerIsInUserGroups is true.
C9_Readiness ==
    \A p \in Callers :
        (Done(p) /\ Top(p).fn = "satisfiesPrequisites")
            => LET specs == Top(p).specs
               IN  /\ Top(p).pc = "return"
                   /\ Top(p).val <=>
                        ~ \/ FALSE \in { specs.dockerInstalled,
                                         specs.dockerComposeInstalled,
                                         specs.dockerIsRunning,
                                         specs.freeRDP3Installed,
                                         specs.ipTablesLoaded,
                                         specs.iptableNatLoaded,
                                         specs.kvmEnabled }
                          \/ specs.ramGB < 400
                          \/ specs.cpuCores < 2
                          \/ (Top(p).requiresGroup /\ ~specs.dockerIsInUserGroups)

\* C9 witness: everything satisfied with 4 GB, 2 cores and the group
\* required and satisfied: true.
C9_Witness ==
    /\ Done(ApiCaller)
    /\ Top(ApiCaller).fn = "satisfiesPrequisites"
    /\ Top(ApiCaller).requiresGroup
    /\ Top(ApiCaller).specs.dockerIsInUserGroups
    /\ Top(ApiCaller).specs.ramGB = 400
    /\ Top(ApiCaller).specs.cpuCores = 2
    /\ Top(ApiCaller).val

---------------------------------------------------------------------------
(* Command rewriting on every template: one caller of execCommand and      *)
(* reset.                                                                  *)

NextRewrite ==
    \/ \E command \in Templates : CallExecCommand(ApiCaller, command)
    \/ DetectDockerDone(ApiCaller)
    \/ DetectPodmanDone(ApiCaller)
    \/ CommandAfterDetect(ApiCaller)
    \/ ExecAfterGetCommand(ApiCaller)
    \/ ExecCommandDone(ApiCaller)
    \/ Reset

SpecRewrite == InitOn(EngineHosts) /\ [][NextRewrite]_vars

\* t begins with the six letters of an engine's name.
BeginsWithEngine(t) ==
    /\ Len(t) >= 6
    /\ \/ \A i \in 1..6 : t[i] = DOCKER[i]
       \/ \A i \in 1..6 : t[i] = PODMAN[i]

\* C10: the command execCommand(template) executes is the template with a
\* leading 'docker' or 'podman' replaced by the resolved invocation name and
\* every later character unchanged; a template that begins with neither
\* name is executed as it is.
C10_OnlyLeadingNameRewritten ==
    \A p \in Callers :
        AtExec(p, "execCommand", "exec")
            => LET t == Top(p).arg
                   c == Top(p).cmd
                   name == Top(p).rt
               IN  /\ name \in {DOCKER, PODMAN}
                   /\ IF BeginsWithEngine(t)
                      THEN /\ Len(c) = Len(t)
                           /\ \A i \in 1..6 : c[i] = name[i]
                           /\ \A i \in 7..Len(t) : c[i] = t[i]
                      ELSE c = t

\* C10 witness: Podman is active and "docker docker" runs as "podman docker".
C10_Witness ==
    /\ AtExec(ApiCaller, "execCommand", "exec")
    /\ Top(ApiCaller).arg = DOCKER \o <<" ">> \o DOCKER
    /\ Top(ApiCaller).cmd = PODMAN \o <<" ">> \o DOCKER


---------------------------------------------------------------------------
(* The cached kind over time, under Spec *)

\* A step that clears the cached kind is a reset(): it clears the info too.
ClearedByReset ==
    detectedRuntime' = "null" => (runtimeInfo' = NullInfo /\ lastDetect' = "none")

\* C11 as stated: once the cached kind is 'docker' or 'podman', every step
\* keeps it, except a reset(), which clears it.
C11_KindKeptUntilReset ==
    [][detectedRuntime # "null"
         => /\ detectedRuntime' \in {detectedRuntime, "null"}
            /\ ClearedByReset]_vars

\* C11 amended: once the cached kind is 'docker' or 'podman', only reset()
\* clears it (a failed probe never does), and as long as the host's answers
\* have not changed no step changes it to the other kind.
C11_KindKeptUntilResetOnSameHost ==
    [][detectedRuntime # "null"
         => /\ ClearedByReset
            /\ hostChanges' = 0
                 => detectedRuntime' \in {detectedRuntime, "null"}]_vars

\* C11 witness: on an unchanged host, the kind a probing call wrote is
\* still cached after another call has been served from the cache.
C11_Witness ==
    /\ hostChanges = 0
    /\ detectedRuntime = "docker"
    /\ \E p \in Callers : \E q \in Callers \ {p} :
        /\ Done(p) /\ Top(p).fn = "detectRuntime"
        /\ Top(p).n = 1 /\ Top(p).val = "docker"
        /\ Done(q) /\ Top(q).fn = "detectRuntime"
        /\ Top(q).n = 0 /\ Top(q).val = "docker"


---------------------------------------------------------------------------
(* Two detectRuntime() calls on an empty cache: callers of detectRuntime,   *)
(* interleaved at the awaits, with no reset().                             *)

NextRace ==
    \/ \E p \in Callers : CallDetectRuntime(p)
    \/ \E p \in Callers : DetectDockerDone(p)
    \/ \E p \in Callers : DetectPodmanDone(p)
    \/ HostChange(CacheHosts)

SpecRace == InitOn(CacheHosts) /\ [][NextRace]_vars

\* Calls p and q of detectRuntime() have both settled, each after its own
\* probes, and both were entered before any detectRuntime() had returned:
\* they overlapped.
BothProbed(p, q) ==
    /\ Done(p) /\ Top(p).fn = "detectRuntime"
    /\ Done(q) /\ Top(q).fn = "detectRuntime"
    /\ Top(p).n >= 1 /\ Top(p).prev = "none"
    /\ Top(q).n >= 1 /\ Top(q).prev = "none"

---------------------------------------------------------------------------
(* The failures of detectRuntime's probes, under Spec *)

\* The detectRuntime() call of p, top-level or inside another call, has
\* left program point pc in this step.
DetectLeaves(p, pc) ==
    /\ AtExec(p, "detectRuntime", pc)
    /\ Len(stack'[p]) = Len(stack[p])
    /\ stack'[p][Len(stack'[p])].pc # pc

\* C13: a failed `docker --version` leads to `podman --version` and is not
\* thrown; a successful `podman --version` returns and caches 'podman'; a
\* failed one returns null and leaves the cached kind and the cached info
\* as they were.
C13_DetectNeverThrows ==
    [][\A p \in Callers :
        LET after == stack'[p][Len(stack'[p])]
        IN  /\ (DetectLeaves(p, "docker") /\ ~Exec(host, DOCKER \o VERSION_ARG).ok)
                  => /\ after.pc = "podman"
                     /\ after.cmd = PODMAN \o VERSION_ARG
                     /\ detectedRuntime' = detectedRuntime
                     /\ runtimeInfo' = runtimeInfo
            /\ (DetectLeaves(p, "podman") /\ Exec(host, PODMAN \o VERSION_ARG).ok)
                  => /\ after.pc = "return"
                     /\ after.val = "podman"
                     /\ detectedRuntime' = "podman"
            /\ (DetectLeaves(p, "podman") /\ ~Exec(host, PODMAN \o VERSION_ARG).ok)
                  => /\ after.pc = "return"
                     /\ after.val = "null"
                     /\ detectedRuntime' = detectedRuntime
                     /\ runtimeInfo' = runtimeInfo]_vars

\* C13 witness: a call has returned null after both commands failed, while
\* an info was cached and no kind; the info is still cached.
C13_Witness ==
    /\ detectedRuntime = "null"
    /\ runtimeInfo.type # "null"
    /\ \E p \in Callers :
        /\ Done(p) /\ Top(p).fn = "detectRuntime"
        /\ Top(p).n = 2 /\ Top(p).val = "null"


---------------------------------------------------------------------------
(* Container, volume and compose operations *)

\* The operations that run `${runtime} ...` with the name of getCommand().
LifecycleOps ==
    { "containerInspect", "containerStart", "containerStop", "containerPause",
      "containerUnpause", "containerRemove", "volumeRemove", "containerList",
      "composeUp", "composeDown" }

\* The arguments of the command of op, for container "c", format "f",
\* volume "v", compose file "y" and no filter.
LifecycleArgs(op) ==
    IF op = "containerInspect"
    THEN <<" ","i","n","s","p","e","c","t"," ","-","-","f","o","r","m","a","t","=","\"","f","\""," ","c">>
    ELSE IF op = "containerStart"
    THEN <<" ","c","o","n","t","a","i","n","e","r"," ","s","t","a","r","t"," ","c">>
    ELSE IF op = "containerStop"
    THEN <<" ","c","o","n","t","a","i","n","e","r"," ","s","t","o","p"," ","c">>
    ELSE IF op = "containerPause"
    THEN <<" ","c","o","n","t","a","i","n","e","r"," ","p","a","u","s","e"," ","c">>
    ELSE IF op = "containerUnpause"
    THEN <<" ","c","o","n","t","a","i","n","e","r"," ","u","n","p","a","u","s","e"," ","c">>
    ELSE IF op = "containerRemove"
    THEN <<" ","r","m"," ","c">>
    ELSE IF op = "volumeRemove"
    THEN <<" ","v","o","l","u","m","e"," ","r","m"," ","v">>
    ELSE IF op = "containerList"
    THEN <<" ","p","s"," ","-","a"," "," ","-","-","f","o","r","m","a","t"," ","\"","{","{",".","N","a","m","e","s","}","}","\"">>
    ELSE IF op = "composeUp"
    THEN <<" ","c","o","m","p","o","s","e"," ","-","f"," ","y"," ","u","p"," ","-","d">>
    ELSE <<" ","c","o","m","p","o","s","e"," ","-","f"," ","y"," ","d","o","w","n">>

\* What op returns for the command's output.
LifecycleReturn(op, stdout) ==
    IF op = "containerInspect" THEN Trim(stdout)
    ELSE IF op = "composeDown" THEN Undefined
    ELSE stdout

\* An operation up to its first await, the call of getCommand().
LifecycleFrames(op) ==
    << [fn |-> "lifecycle", op |-> op, pc |-> "getCommand",
        cmd |-> <<>>, val |-> <<>>] >> \o CommandFrames

CallGetCommand(p) ==
    /\ Call(p, CommandFrames)
    /\ lastDetect' = DetectEntered
    /\ UNCHANGED <<detectedRuntime, runtimeInfo, host, hostChanges>>

CallLifecycle(p, op) ==
    /\ Call(p, LifecycleFrames(op))
    /\ lastDetect' = DetectEntered
    /\ UNCHANGED <<detectedRuntime, runtimeInfo, host, hostChanges>>

\* getCommand() has settled: the command is executed.
LifecycleAfterGetCommand(p) ==
    /\ AtAwait(p, "lifecycle", "getCommand", "getCommand")
    /\ stack' = Resume(p, << [Below(p) EXCEPT
                                !.pc = "exec",
                                !.cmd = Top(p).val \o LifecycleArgs(Below(p).op)] >>)
    /\ UNCHANGED <<detectedRuntime, runtimeInfo, host, hostChanges, lastDetect>>

\* The command settles: its output is returned, its failure is thrown.
LifecycleDone(p) ==
    /\ AtExec(p, "lifecycle", "exec")
    /\ LET r == Exec(host, Top(p).cmd)
       IN  stack' = SetTop(p, << [Top(p) EXCEPT
                                    !.pc = IF r.ok THEN "return" ELSE "throw",
                                    !.val = IF r.ok
                                            THEN LifecycleReturn(Top(p).op, r.stdout)
                                            ELSE <<>>] >>)
    /\ UNCHANGED <<detectedRuntime, runtimeInfo, host, hostChanges, lastDetect>>


---------------------------------------------------------------------------
(* The name used when no engine is found: one caller of getCommand,        *)
(* execCommand, the container operations, detectRuntime,                   *)
(* requiresGroupMembership and reset.                                      *)

\* Templates of execCommand that begin with an engine's name, or with none.
DefaultTemplates == { DOCKER \o PS_ARG, PODMAN \o PS_ARG, PS_ARG }

NextDefault ==
    \/ CallGetCommand(ApiCaller)
    \/ \E command \in DefaultTemplates : CallExecCommand(ApiCaller, command)
    \/ \E op \in LifecycleOps : CallLifecycle(ApiCaller, op)
    \/ CallDetectRuntime(ApiCaller)
    \/ CallRequiresGroupMembership(ApiCaller)
    \/ DetectDockerDone(ApiCaller)
    \/ DetectPodmanDone(ApiCaller)
    \/ CommandAfterDetect(ApiCaller)
    \/ ExecAfterGetCommand(ApiCaller)
    \/ ExecCommandDone(ApiCaller)
    \/ LifecycleAfterGetCommand(ApiCaller)
    \/ LifecycleDone(ApiCaller)
    \/ RequiresAfterDetect(ApiCaller)
    \/ Reset

SpecDefault == InitOn(EngineHosts) /\ [][NextDefault]_vars

\* The host answers neither `docker --version` nor `podman --version`.
NoEngine == ~host.docker.ok /\ ~host.podman.ok

\* Frame f has got its command name from getCommand().
Named(f) == f.pc \in {"exec", "return", "throw"}

\* C14: on a host without an engine, getCommand() returns 'docker', the
\* commands of execCommand() and of the container operations start with
\* 'docker', and the cache stays empty: detectRuntime() probes again and
\* returns null, requiresGroupMembership() returns false.
C14_DockerDefaultNotCached ==
    NoEngine =>
        /\ detectedRuntime = "null"
        /\ \A p \in Callers : \A i \in 1..Len(stack[p]) :
            LET f == stack[p][i]
            IN  /\ (f.fn = "getCommand" /\ Settled(f))
                      => (f.pc = "return" /\ f.val = DOCKER)
                /\ (f.fn = "lifecycle" /\ Named(f))
                      => f.cmd = DOCKER \o LifecycleArgs(f.op)
                /\ (f.fn = "execCommand" /\ Named(f))
                      => IF BeginsWithEngine(f.arg)
                         THEN f.cmd = DOCKER \o SubSeq(f.arg, 7, Len(f.arg))
                         ELSE f.cmd = f.arg
                /\ (f.fn = "detectRuntime" /\ Settled(f))
                      => (f.pc = "return" /\ f.val = "null" /\ f.n = 2)
                /\ (f.fn = "requiresGroupMembership" /\ Settled(f))
                      => (f.pc = "return" /\ f.val = FALSE)

\* C14 witness: containerStart has run `docker container start c` on a
\* host without an engine, the command has failed, and no kind is cached.
C14_Witness ==
    /\ NoEngine
    /\ detectedRuntime = "null"
    /\ Done(ApiCaller)
    /\ Top(ApiCaller).fn = "lifecycle"
    /\ Top(ApiCaller).op = "containerStart"
    /\ Top(ApiCaller).pc = "throw"
    /\ Top(ApiCaller).cmd = DOCKER \o LifecycleArgs("containerStart")


---------------------------------------------------------------------------
(* requiresGroupMembership, under SpecGroups *)

\* The host has Docker itself: `docker --version` answers, and not with
\* Podman's name.
HostHasDocker == host.docker.ok /\ ~MentionsPodman(host.docker.stdout)

\* C15: requiresGroupMembership() returns true if and only if the host's
\* engine is detected as 'docker'; it returns false for Podman, for the
\* podman-docker wrapper and when there is no engine.
C15_GroupRequiredOnlyForDocker ==
    \A p \in Callers :
        (Done(p) /\ Top(p).fn = "requiresGroupMembership")
            => /\ Top(p).pc = "return"
               /\ Top(p).val = HostHasDocker

\* C15 witness: false has been returned on a host without an engine.
C15_Witness ==
    /\ NoEngine
    /\ Done(ApiCaller)
    /\ Top(ApiCaller).fn = "requiresGroupMembership"
    /\ Top(ApiCaller).val = FALSE


---------------------------------------------------------------------------
(* Successive getRuntimeInfo() calls: one caller of getRuntimeInfo and      *)
(* reset, on a host whose answers may change.                              *)

NextServe ==
    \/ CallGetRuntimeInfo(ApiCaller)
    \/ DetectDockerDone(ApiCaller)
    \/ DetectPodmanDone(ApiCaller)
    \/ InfoAfterDetect(ApiCaller)
    \/ InfoVersionDone(ApiCaller)
    \/ InfoComposeDone(ApiCaller)
    \/ Reset
    \/ HostChange(CacheHosts)

SpecServe == InitOn(CacheHosts) /\ [][NextServe]_vars

\* In this step the getRuntimeInfo() call of p learns the kind its
\* detectRuntime() resolved, and the cache holds an info of that kind.
ResumesOnCachedInfo(p) ==
    /\ AtAwait(p, "getRuntimeInfo", "detect", "detectRuntime")
    /\ Len(stack'[p]) = Len(stack[p]) - 1
    /\ runtimeInfo.type # "null"
    /\ runtimeInfo.type = Top(p).val

\* In this step p calls getRuntimeInfo() after a getRuntimeInfo() call of
\* its own that returned an info, with no reset() since that call began.
CallsAgainAfterSuccess(p) ==
    /\ Done(p)
    /\ Top(p).fn = "getRuntimeInfo"
    /\ Top(p).val.type # "null"
    /\ ~Top(p).during
    /\ runtimeInfo # NullInfo
    /\ Len(stack'[p]) = 2
    /\ stack'[p][1].fn = "getRuntimeInfo"

\* C16: a getRuntimeInfo() call that finds a cached info of the resolved
\* kind returns it unchanged and runs no command; and a call that follows
\* a successful one with no reset() finds kind and info cached: its
\* detectRuntime() runs no command either.
C16_CachedInfoServed ==
    [][\A p \in Callers :
        /\ ResumesOnCachedInfo(p)
              => LET f == stack'[p][Len(stack'[p])]
                 IN  /\ f.pc = "return"
                     /\ f.val = runtimeInfo
                     /\ f.n = 0
                     /\ runtimeInfo' = runtimeInfo
        /\ CallsAgainAfterSuccess(p)
              => /\ runtimeInfo = Top(p).val
                 /\ stack'[p][2].pc = "return"
                 /\ stack'[p][2].n = 0
                 /\ stack'[p][2].val = runtimeInfo.type]_vars

\* C16 witness: a call has returned the cached info of a Docker with
\* compose, without running a command.
C16_Witness ==
    /\ Done(ApiCaller)
    /\ Top(ApiCaller).fn = "getRuntimeInfo"
    /\ Top(ApiCaller).n = 0
    /\ Top(ApiCaller).val.type = "docker"
    /\ Top(ApiCaller).val.composeInstalled
    /\ Top(ApiCaller).val = runtimeInfo


---------------------------------------------------------------------------
(* Failures of the compose probe, under SpecCompose *)

\* t is s without the white space at its ends.
IsTrimOf(t, s) ==
    \E i \in 1..(Len(s) + 1) : \E j \in 0..Len(s) :
        /\ t = SubSeq(s, i, j)
        /\ \A k \in 1..Len(s) : (k < i \/ k > j) => s[k] \in WhiteSpace
        /\ t # <<>> => (t[1] \notin WhiteSpace /\ t[Len(t)] \notin WhiteSpace)

\* The answer of the host to `{kind} --version`.
VersionAnswer(kind) == IF kind = "docker" THEN host.docker ELSE host.podman

\* C17: when the compose probe fails, or its output has no
\* major.minor.patch match, getRuntimeInfo() returns an info of the resolved
\* kind with the probed version and composeInstalled = false, and that info
\* is cached; the call does not return null and does not throw.
C17_ComposeFailureIsNotFatal ==
    \A p \in Callers :
        (/\ Done(p)
         /\ Top(p).fn = "getRuntimeInfo"
         /\ Top(p).n = 2
         /\ (~host.compose.ok \/ ~HasSemver(host.compose.stdout)))
            => /\ Top(p).pc = "return"
               /\ Top(p).val.type \in {"docker", "podman"}
               /\ Top(p).val.type = Top(p).rt
               /\ ~Top(p).val.composeInstalled
               /\ Top(p).val.composeVersion = Undefined
               /\ IsTrimOf(Top(p).val.version, VersionAnswer(Top(p).rt).stdout)
               /\ Top(p).val.version # <<>>
               /\ runtimeInfo = Top(p).val

\* C17 witness: Podman answers `--version`, `podman compose version`
\* fails, and the info with the version and without compose is cached.
C17_Witness ==
    /\ ~host.compose.ok
    /\ Done(ApiCaller)
    /\ Top(ApiCaller).fn = "getRuntimeInfo"
    /\ Top(ApiCaller).n = 2
    /\ Top(ApiCaller).val.type = "podman"
    /\ ~Top(ApiCaller).val.composeInstalled
    /\ runtimeInfo = Top(ApiCaller).val


---------------------------------------------------------------------------
(* isRuntimeRunning *)

\* isRuntimeRunning() up to its first await, the call of getCommand().
RunningFrames ==
    << [fn |-> "isRuntimeRunning", pc |-> "getCommand", cmd |-> <<>>,
        val |-> FALSE] >> \o CommandFrames

\* getCommand() has settled: `${runtime} ps` is executed.
RunningAfterGetCommand(p) ==
    /\ AtAwait(p, "isRuntimeRunning", "getCommand", "getCommand")
    /\ stack' = Resume(p, << [Below(p) EXCEPT
                                !.pc = "ps",
                                !.cmd = Top(p).val \o PS_ARG] >>)
    /\ UNCHANGED <<detectedRuntime, runtimeInfo, host, hostChanges, lastDetect>>

\* `${runtime} ps` settles: return !!stdout; a failure is caught.
RunningPsDone(p) ==
    /\ AtExec(p, "isRuntimeRunning", "ps")
    /\ LET r == Exec(host, Top(p).cmd)
       IN  stack' = SetTop(p, << [Top(p) EXCEPT
                                    !.pc = "return",
                                    !.cmd = <<>>,
                                    !.val = (r.ok /\ r.stdout # <<>>)] >>)
    /\ UNCHANGED <<detectedRuntime, runtimeInfo, host, hostChanges, lastDetect>>

---------------------------------------------------------------------------
(* getMemoryInfo (specs.ts) *)

MEM_TOTAL == <<"M","e","m","T","o","t","a","l">>
MEM_AVAILABLE == <<"M","e","m","A","v","a","i","l","a","b","l","e">>

\* memInfo.split('\n')
RECURSIVE SplitLinesFrom(_, _, _)
SplitLinesFrom(s, i, cur) ==
    IF i > Len(s) THEN <<cur>>
    ELSE IF s[i] = "\n" THEN <<cur>> \o SplitLinesFrom(s, i + 1, <<>>)
    ELSE SplitLinesFrom(s, i + 1, Append(cur, s[i]))

SplitLines(s) == SplitLinesFrom(s, 1, <<>>)

\* lines.find(line => line.startsWith(prefix)): <<>> for undefined.
RECURSIVE FindLine(_, _)
FindLine(lines, prefix) ==
    IF lines = <<>> THEN <<>>
    ELSE IF StartsWith(Head(lines), prefix) THEN Head(lines)
    ELSE FindLine(Tail(lines), prefix)

\* Math.round(parseInt(line.split(/\s+/)[1]) / 1024 / 1024 * 100) / 100, in
\* hundredths of a GB, for a line whose second field is a number of kB.
RoundedGB(line) ==
    LET kB == ParseInt(SplitWhiteSpace(line)[2])
    IN  (kB * 200 + 1048576) \div 2097152

\* getMemoryInfo() for the content of /proc/meminfo; a read failure is
\* logged and thrown again.
getMemoryInfo(memInfo) ==
    IF ~memInfo.ok THEN [ok |-> FALSE, totalGB |-> 0, availableGB |-> 0]
    ELSE LET lines == SplitLines(memInfo.content)
             totalMemLine == FindLine(lines, MEM_TOTAL)
             availableMemLine == FindLine(lines, MEM_AVAILABLE)
         IN  [ok |-> TRUE,
              totalGB |-> IF totalMemLine # <<>> THEN RoundedGB(totalMemLine) ELSE 0,
              availableGB |-> IF availableMemLine # <<>>
                              THEN RoundedGB(availableMemLine) ELSE 0]


---------------------------------------------------------------------------
(* getSpecs (specs.ts) *)

\* `lscpu -p | egrep -v "^#" | sort -u -t, -k 2,4 | wc -l`: a failure, or
\* the number `wc -l` prints.
CpuAnswers == { Fail, Ok(<<"1","\n">>), Ok(<<"1","2","\n">>) }

\* /proc/meminfo: unreadable, 4 GiB, just under 3.995 GiB, or no MemTotal.
MemInfos ==
    { [ok |-> FALSE, content |-> <<>>],
      [ok |-> TRUE, content |-> <<"M","e","m","T","o","t","a","l",":"," "," "," "," "," "," "," "," ","4","1","9","4","3","0","4"," ","k","B","\n","M","e","m","A","v","a","i","l","a","b","l","e",":"," "," "," "," ","1","0","4","8","5","7","6"," ","k","B","\n">>],
      [ok |-> TRUE, content |-> <<"M","e","m","T","o","t","a","l",":"," ","4","1","8","3","8","1","9"," ","k","B","\n">>],
      [ok |-> TRUE, content |-> <<"M","e","m","F","r","e","e",":"," ","1"," ","k","B","\n">>] }

\* /proc/cpuinfo and /dev/kvm: unreadable, or the flags and the device.
CpuInfos ==
    { [ok |-> FALSE, content |-> <<>>, devKvm |-> FALSE],
      [ok |-> TRUE, content |-> <<"f","l","a","g","s",":"," ","f","p","u"," ","v","m","x">>, devKvm |-> TRUE],
      [ok |-> TRUE, content |-> <<"f","l","a","g","s",":"," ","f","p","u"," ","s","v","m">>, devKvm |-> FALSE],
      [ok |-> TRUE, content |-> <<"f","l","a","g","s",":"," ","f","p","u"," ","s","s","e">>, devKvm |-> TRUE] }

VMX == <<"v","m","x">>
SVM == <<"s","v","m">>

\* getFreeRDP(): it throws, it finds no binary, or it finds one.
FreeRdpAnswers == { Fail, Ok(<<>>), Ok(<<"x","f","r","e","e","r","d","p","3">>) }

\* `lsmod | grep module`: grep finds nothing and fails, or prints a line.
LsmodAnswers == { Fail, Ok(<<"i","p","_","t","a","b","l","e","s"," ","1"," ","0","\n">>), Ok(<<"\n">>) }

\* The probes of getSpecs, in the order of the code.
Probes ==
    << "cpuCores", "ramGB", "kvmEnabled", "dockerInstalled",
       "dockerComposeInstalled", "dockerIsRunning", "dockerIsInUserGroups",
       "freeRDP3Installed", "ipTablesLoaded", "iptableNatLoaded" >>

\* History of a getSpecs() call: how each probe has ended so far.
NoneSeen == [i \in 1..Len(Probes) |-> "none"]

Outcome(ok) == IF ok THEN "ok" ELSE "fail"

\* getSpecs() up to its first await, the lscpu command.
SpecsFrames ==
    << [fn |-> "getSpecs", pc |-> "cpuCores", specs |-> defaultSpecs,
        seen |-> NoneSeen,
        mem |-> [ok |-> FALSE, totalGB |-> 0, availableGB |-> 0],
        val |-> defaultSpecs] >>

CallGetSpecs(p) ==
    /\ Call(p, SpecsFrames)
    /\ UNCHANGED <<detectedRuntime, runtimeInfo, host, hostChanges, lastDetect>>


\* seen with the end of probe i recorded.
Mark(seen, i, ok) == [seen EXCEPT ![i] = Outcome(ok)]

\* A getSpecs() whose memory probe has no try block.
SpecsMemDone_NoTry(p, cpuInfo) ==
    /\ AtExec(p, "getSpecs", "ramGB")
    /\ LET f == Top(p)
       IN  IF f.mem.ok
           THEN /\ stack' = SetTop(p,
                      << [f EXCEPT !.pc = "dockerInstalled",
                                   !.specs.ramGB = f.mem.totalGB,
                                   !.seen = Mark(Mark(f.seen, 2, TRUE), 3, cpuInfo.ok)],
                         DetectFrame >>)
                /\ lastDetect' = DetectEntered
           ELSE /\ stack' = SetTop(p, << [f EXCEPT !.pc = "throw",
                                                    !.seen = Mark(f.seen, 2, FALSE)] >>)
                /\ UNCHANGED lastDetect
    /\ UNCHANGED <<detectedRuntime, runtimeInfo, host, hostChanges>>

\* The lscpu command settles with r: cpuCores is parsed, a failure is
\* caught; getMemoryInfo() reads memInfo.
SpecsCpuDone(p, r, memInfo) ==
    /\ AtExec(p, "getSpecs", "cpuCores")
    /\ stack' = SetTop(p,
          << [Top(p) EXCEPT
                !.pc = "ramGB",
                !.specs.cpuCores = IF r.ok THEN ParseInt(Trim(r.stdout)) ELSE @,
                !.seen = Mark(@, 1, r.ok),
                !.mem = getMemoryInfo(memInfo)] >>)
    /\ UNCHANGED <<detectedRuntime, runtimeInfo, host, hostChanges, lastDetect>>

\* cpuInfo.includes('vmx') || cpuInfo.includes('svm'), and /dev/kvm exists.
KvmEnabled(cpuInfo) ==
    /\ Includes(cpuInfo.content, VMX) \/ Includes(cpuInfo.content, SVM)
    /\ cpuInfo.devKvm

\* getMemoryInfo() settles: ramGB is set, its failure is caught; the KVM
\* check reads cpuInfo, its failure is caught; detectRuntime() is called.
SpecsMemDone(p, cpuInfo) ==
    /\ AtExec(p, "getSpecs", "ramGB")
    /\ LET f == Top(p)
       IN  stack' = SetTop(p,
             << [f EXCEPT
                   !.pc = "dockerInstalled",
                   !.specs.ramGB = IF f.mem.ok THEN f.mem.totalGB ELSE @,
                   !.specs.kvmEnabled = IF cpuInfo.ok /\ KvmEnabled(cpuInfo)
                                        THEN TRUE ELSE @,
                   !.seen = Mark(Mark(@, 2, f.mem.ok), 3, cpuInfo.ok)],
                DetectFrame >>)
    /\ lastDetect' = DetectEntered
    /\ UNCHANGED <<detectedRuntime, runtimeInfo, host, hostChanges>>

\* detectRuntime() has settled: dockerInstalled; getRuntimeInfo() is called.
SpecsAfterDetect(p) ==
    /\ AtAwait(p, "getSpecs", "dockerInstalled", "detectRuntime")
    /\ LET c == Top(p)
       IN  stack' = Resume(p,
             << [Below(p) EXCEPT
                   !.pc = "dockerComposeInstalled",
                   !.specs.dockerInstalled =
                       IF c.pc = "throw" THEN @ ELSE c.val # "null",
                   !.seen = Mark(@, 4, c.pc # "throw")] >>
             \o InfoFrames)
    /\ lastDetect' = DetectEntered
    /\ UNCHANGED <<detectedRuntime, runtimeInfo, host, hostChanges>>

\* getRuntimeInfo() has settled: dockerComposeInstalled; isRuntimeRunning()
\* is called.
SpecsAfterInfo(p) ==
    /\ AtAwait(p, "getSpecs", "dockerComposeInstalled", "getRuntimeInfo")
    /\ LET c == Top(p)
       IN  stack' = Resume(p,
             << [Below(p) EXCEPT
                   !.pc = "dockerIsRunning",
                   !.specs.dockerComposeInstalled =
                       IF c.pc = "throw" THEN @
                       ELSE IF c.val.type # "null" THEN c.val.composeInstalled
                       ELSE FALSE,
                   !.seen = Mark(@, 5, c.pc # "throw")] >>
             \o RunningFrames)
    /\ lastDetect' = DetectEntered
    /\ UNCHANGED <<detectedRuntime, runtimeInfo, host, hostChanges>>

\* isRuntimeRunning() has settled: dockerIsRunning; isUserInRuntimeGroup()
\* is called.
SpecsAfterRunning(p) ==
    /\ AtAwait(p, "getSpecs", "dockerIsRunning", "isRuntimeRunning")
    /\ LET c == Top(p)
       IN  stack' = Resume(p,
             << [Below(p) EXCEPT
                   !.pc = "dockerIsInUserGroups",
                   !.specs.dockerIsRunning = IF c.pc = "throw" THEN @ ELSE c.val,
                   !.seen = Mark(@, 6, c.pc # "throw")] >>
             \o GroupFrames)
    /\ lastDetect' = DetectEntered
    /\ UNCHANGED <<detectedRuntime, runtimeInfo, host, hostChanges>>

\* isUserInRuntimeGroup() has settled: dockerIsInUserGroups; getFreeRDP()
\* is called.
SpecsAfterGroup(p) ==
    /\ AtAwait(p, "getSpecs", "dockerIsInUserGroups", "isUserInRuntimeGroup")
    /\ LET c == Top(p)
       IN  stack' = Resume(p,
             << [Below(p) EXCEPT
                   !.pc = "freeRDP3Installed",
                   !.specs.dockerIsInUserGroups = IF c.pc = "throw" THEN @ ELSE c.val,
                   !.seen = Mark(@, 7, c.pc # "throw")] >>)
    /\ UNCHANGED <<detectedRuntime, runtimeInfo, host, hostChanges, lastDetect>>

\* getFreeRDP() settles with r: freeRDP3Installed = !!freeRDPBin; the
\* `lsmod | grep ip_tables` command is run.
SpecsFreeRdpDone(p, r) ==
    /\ AtExec(p, "getSpecs", "freeRDP3Installed")
    /\ stack' = SetTop(p,
          << [Top(p) EXCEPT
                !.pc = "ipTablesLoaded",
                !.specs.freeRDP3Installed = IF r.ok THEN r.stdout # <<>> ELSE @,
                !.seen = Mark(@, 8, r.ok)] >>)
    /\ UNCHANGED <<detectedRuntime, runtimeInfo, host, hostChanges, lastDetect>>

\* `lsmod | grep ip_tables` settles with r; `lsmod | grep iptable_nat` is run.
SpecsIpTablesDone(p, r) ==
    /\ AtExec(p, "getSpecs", "ipTablesLoaded")
    /\ stack' = SetTop(p,
          << [Top(p) EXCEPT
                !.pc = "iptableNatLoaded",
                !.specs.ipTablesLoaded = IF r.ok THEN Trim(r.stdout) # <<>> ELSE @,
                !.seen = Mark(@, 9, r.ok)] >>)
    /\ UNCHANGED <<detectedRuntime, runtimeInfo, host, hostChanges, lastDetect>>

\* `lsmod | grep iptable_nat` settles with r: the specs are returned.
SpecsNatDone(p, r) ==
    /\ AtExec(p, "getSpecs", "iptableNatLoaded")
    /\ LET f == [Top(p) EXCEPT
                   !.specs.iptableNatLoaded = IF r.ok THEN Trim(r.stdout) # <<>> ELSE @,
                   !.seen = Mark(@, 10, r.ok)]
       IN  stack' = SetTop(p, << [f EXCEPT !.pc = "return", !.val = f.specs] >>)
    /\ UNCHANGED <<detectedRuntime, runtimeInfo, host, hostChanges, lastDetect>>


\* The hosts of the readiness check: each engine, with and without compose,
\* a running daemon and an answer of `id -Gn`.
SpecsHosts ==
    { MkHost(e[1], e[2], c, running, g) :
        e \in EngineAnswers,
        c \in {Fail, Ok(ComposeV2)},
        running \in {Fail, Ok(PsHeader)},
        g \in {Fail, Ok(GroupsWithDocker)} }

NextSpecs ==
    \/ CallGetSpecs(ApiCaller)
    \/ \E r \in CpuAnswers, memInfo \in MemInfos : SpecsCpuDone(ApiCaller, r, memInfo)
    \/ \E cpuInfo \in CpuInfos : SpecsMemDone(ApiCaller, cpuInfo)
    \/ DetectDockerDone(ApiCaller)
    \/ DetectPodmanDone(ApiCaller)
    \/ SpecsAfterDetect(ApiCaller)
    \/ InfoAfterDetect(ApiCaller)
    \/ InfoVersionDone(ApiCaller)
    \/ InfoComposeDone(ApiCaller)
    \/ SpecsAfterInfo(ApiCaller)
    \/ CommandAfterDetect(ApiCaller)
    \/ RunningAfterGetCommand(ApiCaller)
    \/ RunningPsDone(ApiCaller)
    \/ SpecsAfterRunning(ApiCaller)
    \/ GroupAfterDetect(ApiCaller)
    \/ GroupIdDone(ApiCaller)
    \/ SpecsAfterGroup(ApiCaller)
    \/ \E r \in FreeRdpAnswers : SpecsFreeRdpDone(ApiCaller, r)
    \/ \E r \in LsmodAnswers : SpecsIpTablesDone(ApiCaller, r)
    \/ \E r \in LsmodAnswers : SpecsNatDone(ApiCaller, r)

\* One caller of getSpecs(); every command it awaits settles, every
\* continuation that is ready runs.
SpecSpecs == InitOn(SpecsHosts) /\ [][NextSpecs]_vars /\ WF_vars(NextSpecs)

---------------------------------------------------------------------------
(* C18 *)

\* A getSpecs() call of the caller is in flight.
SpecsInFlight ==
    /\ stack[ApiCaller] # <<>>
    /\ stack[ApiCaller][1].fn = "getSpecs"
    /\ ~Done(ApiCaller)

\* The getSpecs() call of the caller has settled.
SpecsSettled == Done(ApiCaller) /\ Top(ApiCaller).fn = "getSpecs"

\* The fields of Specs that are at their "not satisfied" value in specs.
AtDefault(specs, fields) == \A k \in fields : specs[k] = defaultSpecs[k]

EngineFields ==
    {"dockerInstalled", "dockerComposeInstalled", "dockerIsRunning",
     "dockerIsInUserGroups"}

\* What a settled getSpecs() call has done: it returned, a record with
\* every field of Specs; every probe ran; each field whose probe threw is at
\* its default, and so is each field whose engine command the host fails.
SpecsIsolated ==
    SpecsSettled =>
        LET f == Top(ApiCaller)
        IN  /\ f.pc = "return"
            /\ DOMAIN f.val = DOMAIN defaultSpecs
            /\ \A i \in 1..Len(Probes) : f.seen[i] \in {"ok", "fail"}
            /\ AtDefault(f.val, {Probes[i] : i \in {j \in 1..Len(Probes) :
                                                     f.seen[j] = "fail"}})
            /\ NoEngine => AtDefault(f.val, EngineFields)
            /\ ~host.compose.ok => AtDefault(f.val, {"dockerComposeInstalled"})
            /\ ~host.ps.ok => AtDefault(f.val, {"dockerIsRunning"})

\* C18: getSpecs() always completes and returns a full Specs record whatever
\* subset of its probes fail: no failing probe keeps a later probe from
\* running, and each field whose probe failed keeps its default value,
\* false or 0, ramGB = 0 included when getMemoryInfo() throws again.
C18_ProbesAreIsolated ==
    /\ []SpecsIsolated
    /\ SpecsInFlight ~> SpecsSettled

\* C18 witness: the lscpu command failed and getMemoryInfo() threw, so
\* cpuCores and ramGB are 0, and the later probes ran all the same: an
\* engine was found and both kernel modules are loaded.
C18_Witness ==
    /\ SpecsSettled
    /\ Top(ApiCaller).seen[1] = "fail"
    /\ Top(ApiCaller).seen[2] = "fail"
    /\ Top(ApiCaller).val.cpuCores = 0
    /\ Top(ApiCaller).val.ramGB = 0
    /\ Top(ApiCaller).val.dockerInstalled
    /\ Top(ApiCaller).val.ipTablesLoaded
    /\ Top(ApiCaller).val.iptableNatLoaded


---------------------------------------------------------------------------
(* C19 *)

\* The getRuntimeInfo() call of p awaits `{engine} --version`, which the
\* host fails.
VersionProbeFails(p) ==
    /\ AtExec(p, "getRuntimeInfo", "version")
    /\ ~Exec(host, Top(p).cmd).ok

\* The step of p that settles the failing probe: the call returns null, and
\* the cached info and the cached kind are what they were.
FailedVersionStep(p) ==
    (VersionProbeFails(p) /\ ~AtExec(p, "getRuntimeInfo", "version")') =>
        /\ Len(stack'[p]) = Len(stack[p])
        /\ stack'[p][Len(stack'[p])].fn = "getRuntimeInfo"
        /\ stack'[p][Len(stack'[p])].pc = "return"
        /\ stack'[p][Len(stack'[p])].val = NullInfo
        /\ runtimeInfo' = runtimeInfo
        /\ detectedRuntime' = detectedRuntime

\* The getRuntimeInfo() call of p has settled after it found a runtime.
InfoSettledWithRuntime(p) ==
    /\ Done(p)
    /\ Top(p).fn = "getRuntimeInfo"
    /\ Top(p).rt # "null"

\* An info that has the answer of a `--version` probe.
HasVersion(info) == info.type # "null" /\ info.version # <<>>

\* No info is cached without its version, and a call that found a runtime
\* has either probed or returned an info that has its version.
NoPartialInfo ==
    /\ runtimeInfo.type # "null" => HasVersion(runtimeInfo)
    /\ \A p \in Callers :
         InfoSettledWithRuntime(p) =>
             \/ Top(p).n >= 1
             \/ HasVersion(Top(p).val)

\* C19: when the `{engine} --version` probe of getRuntimeInfo() fails, the
\* call returns null without throwing and leaves the cached info and the
\* cached kind as they were, so that a later call probes again and is never
\* served an info built in part.
C19_VersionFailureCachesNothing ==
    /\ [][\A p \in Callers : FailedVersionStep(p)]_vars
    /\ []NoPartialInfo

\* C19 witness: the `--version` probe of the caller's call has failed; the
\* call has returned null, the kind is still cached and no info is.
C19_Witness ==
    /\ InfoSettledWithRuntime(ApiCaller)
    /\ Top(ApiCaller).n = 1
    /\ Top(ApiCaller).val = NullInfo
    /\ detectedRuntime = Top(ApiCaller).rt
    /\ runtimeInfo = NullInfo
    /\ ~Exec(host, KindName(Top(ApiCaller).rt) \o VERSION_ARG).ok


---------------------------------------------------------------------------
(* C20 *)

\* v is a version whose major component, the digits before its first dot,
\* writes a number that is at least 2.
MajorIsAtLeastTwo(v) ==
    \E a \in 2..Len(v) :
        /\ v[a] = "."
        /\ \A k \in 1..(a - 1) : v[k] \in Digits
        /\ AtLeastTwo(v, 1, a - 1)

\* composeInstalled = true implies a composeVersion with a major >= 2.
ComposeConsistent(info) ==
    info.composeInstalled =>
        /\ info.composeVersion # Undefined
        /\ MajorIsAtLeastTwo(info.composeVersion)

\* C20: every info getRuntimeInfo() caches or returns has composeInstalled =
\* true only together with a composeVersion whose major component is >= 2.
C20_InstalledImpliesMajorTwo ==
    /\ ComposeConsistent(runtimeInfo)
    /\ \A p \in Callers :
         (Done(p) /\ Top(p).fn = "getRuntimeInfo") => ComposeConsistent(Top(p).val)

\* C20 witness: `compose version` printed version 2.5.1; the info that is
\* cached and returned has composeInstalled = true and that version.
C20_Witness ==
    /\ Done(ApiCaller)
    /\ Top(ApiCaller).fn = "getRuntimeInfo"
    /\ Top(ApiCaller).val = runtimeInfo
    /\ runtimeInfo.composeInstalled
    /\ runtimeInfo.composeVersion = <<"2",".","5",".","1">>
    /\ host.compose.stdout = ComposeV2

=============================================================================
